---- MODULE Spec2Model ----
(***************************************************************************)
(* Spherical-surface character controller of the Comet Observatory scene,  *)
(* in its five variants:                                                   *)
(*   "v2"       src/v2.py              SphericalPlayer (single-slot cache) *)
(*   "v3_0"     src/v3.0.py            SphericalPlayer (single-slot cache) *)
(*   "buildv06" src/buildv06.6.25.py   SphericalPlayer (lru_cache on the   *)
(*                                     rounded position, jump along up)    *)
(*   "b33132"   src/b33132.0.py        SphericalPlayer (no cache, spawned  *)
(*                                     at the planet centre)               *)
(*   "b33134k"  src/b33134k6.6.25.py   SphericalController (blend policy,  *)
(*                                     feet origin, jump along up)         *)
(*                                                                         *)
(* Numbers.  The code computes in floating point.  The model computes in   *)
(* fixed point: lengths, velocities and angles (degrees) are integers in   *)
(* units of 1/SCALE, unit vectors (normals, directions) are integers in    *)
(* units of 1/NSCALE, and every product or quotient is rounded to the      *)
(* nearest unit where the code rounds to the nearest float.  An equality   *)
(* of computed reals is therefore stated up to Tol, the accumulated        *)
(* rounding of one handler.                                                *)
(*                                                                         *)
(* Engine.  The Ursina engine is not part of the repository.  What the     *)
(* controller reads from it each frame (time.dt, held_keys, mouse.velocity,*)
(* and the forward/right axes of the entity or of the camera) is an input  *)
(* of the frame, drawn from the set Inputs.                                *)
(***************************************************************************)
EXTENDS Integers, Sequences, FiniteSets, TLC

\* ------------------------------------------------------------------ bounds
\* Fixed-point resolution: one length unit is SCALE model units.
SCALE == 1000
\* Frame budget of a run: a long frame costs 2, a short frame costs 1.
MaxBudget == 6
\* Number of frames of the free-fall scenario.
FallFrames == 60

\* Unit vectors carry more digits than lengths, as a float mantissa does.
NSCALE == 30 * SCALE
\* Rounding tolerance of the fixed-point arithmetic (0.005 length units).
Tol == SCALE \div 200

\* ------------------------------------------------------- program constants
GRAVITY == 25
PLANET_RADIUS == 32
PLAYER_HEIGHT == 2
MOVE_SPEED == 7
FRICTION_TENTHS == 9

Variants == {"v2", "v3_0", "buildv06", "b33132", "b33134k"}

\* JUMP_HEIGHT = 5 in the Physics class; self.jump_height = 8.0 in b33134k.
JumpHeight(variant) == IF variant = "b33134k" THEN 8 * SCALE ELSE 5 * SCALE

\* AIR_CONTROL = 0.8 in the Physics class; 0.5 in b33134k (in tenths).
AirControlTenths(variant) == IF variant = "b33134k" THEN 5 ELSE 8

\* mouse_sensitivity = Vec2(100, 100); Vec2(40, 40) in b33134k.
MouseSensitivity(variant) == IF variant = "b33134k" THEN 40 ELSE 100

\* target_distance = PLANET_RADIUS + self.height / 2; SURFACE_R in b33134k,
\* whose origin is at the feet.
TargetDistanceOf(variant, radius, height) ==
  IF variant = "b33134k"
  THEN radius * SCALE
  ELSE radius * SCALE + (height * SCALE) \div 2

\* The target distance under the configuration of the source.
TargetDistance(variant) ==
  TargetDistanceOf(variant, PLANET_RADIUS, PLAYER_HEIGHT)

\* The position the avatar is constructed with (b33132: the Entity default;
\* b33134k: assigned right after construction).
SpawnFor(variant, radius, height) ==
  CASE variant = "b33132"  -> <<0, 0, 0>>
    [] variant = "b33134k" -> <<0, radius * SCALE, 0>>
    [] OTHER               -> <<0, (radius + height) * SCALE, 0>>

\* The spawn position under the configuration of the source.
SpawnOf(variant) == SpawnFor(variant, PLANET_RADIUS, PLAYER_HEIGHT)

\* ------------------------------------------------------------- arithmetic
\* a / b rounded to the nearest integer (b > 0).
RDiv(a, b) == (a + b \div 2) \div b

Abs(x) == IF x < 0 THEN 0 - x ELSE x

RECURSIVE ISqrtFloor(_)
ISqrtFloor(n) ==
  IF n < 2 THEN n
  ELSE LET s == 2 * ISqrtFloor(n \div 4)
       IN  IF (s + 1) * (s + 1) <= n THEN s + 1 ELSE s

\* sqrt(n) rounded to the nearest integer.
ISqrt(n) ==
  LET s == ISqrtFloor(n)
  IN  IF n - s * s > s THEN s + 1 ELSE s

Zero3 == <<0, 0, 0>>
VAdd(a, b) == <<a[1] + b[1], a[2] + b[2], a[3] + b[3]>>
VSub(a, b) == <<a[1] - b[1], a[2] - b[2], a[3] - b[3]>>
VNeg(a) == <<0 - a[1], 0 - a[2], 0 - a[3]>>
\* v * (num/den) for a rational scalar.
VMulRat(v, num, den) ==
  <<RDiv(v[1] * num, den), RDiv(v[2] * num, den), RDiv(v[3] * num, den)>>
SumSq(v) == v[1] * v[1] + v[2] * v[2] + v[3] * v[3]
\* Vec3.length()
Length(v) == ISqrt(SumSq(v))
\* Vec3.normalized(): the unit vector (in 1/NSCALE); a zero-length vector is
\* returned unchanged, as the engine's normalized() does.
\* (A float keeps its relative precision at every magnitude; a vector too
\* long for the integer arithmetic is halved first and a short one is
\* doubled as long as it fits, which leaves its direction.)
FitsSquares(v) ==
  LET m == 46340 * 46340 - 1
  IN  /\ Abs(v[1]) <= 46000 /\ Abs(v[2]) <= 46000 /\ Abs(v[3]) <= 46000
      /\ v[2] * v[2] <= m - v[1] * v[1]
      /\ v[3] * v[3] <= m - v[1] * v[1] - v[2] * v[2]

RECURSIVE Normalized(_)
Normalized(v) ==
  IF ~FitsSquares(v) THEN Normalized(VMulRat(v, 1, 2))
  ELSE IF v /= <<0, 0, 0>> /\ FitsSquares(VMulRat(v, 2, 1))
  THEN Normalized(VMulRat(v, 2, 1))
  ELSE LET len == Length(v)
       IN  IF len = 0 THEN Zero3
           ELSE <<RDiv(v[1] * NSCALE, len), RDiv(v[2] * NSCALE, len),
                  RDiv(v[3] * NSCALE, len)>>
\* unit vector (1/NSCALE) times a scalar s: a vector in the units of s.
NScale(n, s) ==
  <<RDiv(n[1] * s, NSCALE), RDiv(n[2] * s, NSCALE), RDiv(n[3] * s, NSCALE)>>
\* Vec3.dot of a vector with a unit vector (1/NSCALE): in the vector's units.
Dot(v, n) == RDiv(v[1] * n[1] + v[2] * n[2] + v[3] * n[3], NSCALE)

\* (mutation: no clamping)
ClampNone(x, lo, hi) == x
\* clamp(value, floor, ceiling)
Clamp(x, lo, hi) == IF x < lo THEN lo ELSE IF x > hi THEN hi ELSE x


\* ------------------------------------------------------ frame inputs
\* forward/right axes as the engine reports them (self.forward, self.right,
\* camera.forward, camera.right): orthonormal pairs, in 1/NSCALE.
AxisZ == [forward |-> <<0, 0, NSCALE>>, right |-> <<NSCALE, 0, 0>>]
AxisX == [forward |-> <<NSCALE, 0, 0>>, right |-> <<0, 0, 0 - NSCALE>>]

\* One frame's input: time.dt as the rational dt[1]/dt[2] (seconds),
\* held_keys of w, a, s, d (0 or 1), whether any other key is held,
\* mouse.velocity (in 1/SCALE), and the engine's axes.
In(dt, w, a, s, d, other, mouse, axes) ==
  [dt |-> dt, w |-> w, a |-> a, s |-> s, d |-> d, other |-> other,
   mouse |-> mouse, forward |-> axes.forward, right |-> axes.right]

Inputs ==
  { In(<<1, 4>>,  0, 0, 0, 0, FALSE, <<0, 0>>, AxisZ),
    In(<<7, 100>>, 0, 0, 0, 0, FALSE, <<0, 0>>, AxisZ),
    In(<<1, 10>>, 1, 0, 0, 0, FALSE, <<0, 0>>, AxisZ),
    In(<<1, 4>>,  0, 0, 1, 0, FALSE, <<0, 0>>, AxisZ),
    In(<<1, 10>>, 1, 0, 0, 1, FALSE, <<0, 0>>, AxisX),
    In(<<1, 4>>,  0, 1, 0, 1, TRUE,
       <<(3 * SCALE) \div 2, 2 * SCALE>>, AxisZ),
    In(<<1, 10>>, 0, 0, 0, 0, TRUE,
       <<0 - (3 * SCALE) \div 2, 0 - 2 * SCALE>>, AxisX) }

\* What a frame takes from the budget: the short frames (time.dt < 0.1 s)
\* may run longer sequences than the long ones.
FrameCost(in) == IF 10 * in.dt[1] < in.dt[2] THEN 1 ELSE 2

\* move_x = held_keys['d'] - held_keys['a']
MoveX(in) == in.d - in.a
\* move_z = held_keys['w'] - held_keys['s']
MoveZ(in) == in.w - in.s
\* any(held_keys.values())
AnyKeyHeld(in) == in.w + in.a + in.s + in.d > 0 \/ in.other
\* x * time.dt
MulDt(x, in) == RDiv(x * in.dt[1], in.dt[2])
VMulDt(v, in) == VMulRat(v, in.dt[1], in.dt[2])

\* ------------------------------------------------ surface normal queries
\* round(x, 1) and round(x, 2): the key, in tenths and in hundredths.
Round1(x) == RDiv(x * 10, SCALE)
Round2(x) == RDiv(x * 100, SCALE)
PosTuple1(pos) == <<Round1(pos[1]), Round1(pos[2]), Round1(pos[3])>>
PosTuple2(pos) == <<Round2(pos[1]), Round2(pos[2]), Round2(pos[3])>>
\* Vec3(*pos_tuple) of a tuple of hundredths.
Vec3OfTuple2(t) ==
  <<RDiv(t[1] * SCALE, 100), RDiv(t[2] * SCALE, 100), RDiv(t[3] * SCALE, 100)>>

\* self._last_pos_tuple = None
None == <<>>

\* (mutation: the first normal computed is returned ever after)
GetSurfaceNormalSticky(pos, last_pos_tuple, cached_normal) ==
  LET pos_tuple == PosTuple1(pos)
  IN  IF last_pos_tuple = None
      THEN [normal |-> Normalized(pos), last_pos_tuple |-> pos_tuple,
            cached_normal |-> Normalized(pos)]
      ELSE [normal |-> cached_normal, last_pos_tuple |-> last_pos_tuple,
            cached_normal |-> cached_normal]
\* get_surface_normal of v2 and v3.0: single-slot memo on the position
\* rounded to one decimal.  PLANET_CENTER is the origin.
GetSurfaceNormalCached(pos, last_pos_tuple, cached_normal) ==
  LET pos_tuple == PosTuple1(pos)
  IN  IF pos_tuple /= last_pos_tuple
      THEN [normal |-> Normalized(pos), last_pos_tuple |-> pos_tuple,
            cached_normal |-> Normalized(pos)]
      ELSE [normal |-> cached_normal, last_pos_tuple |-> last_pos_tuple,
            cached_normal |-> cached_normal]

\* get_surface_normal of buildv06 as update() calls it: lru_cache keyed by
\* the position rounded to two decimals, the normal computed from the key.
GetSurfaceNormalRounded(pos) == Normalized(Vec3OfTuple2(PosTuple2(pos)))

\* (mutation: the world up axis at the planet center)
GetSurfaceNormalUpAtCenter(pos) ==
  IF pos = <<0, 0, 0>> THEN <<0, NSCALE, 0>> ELSE Normalized(pos)
\* get_surface_normal of b33132: no cache.
GetSurfaceNormalPlain(pos) == Normalized(pos)

\* The surface normal update() starts with, and the cache it leaves.
SurfaceNormal(variant, p) ==
  CASE variant \in {"v2", "v3_0"} ->
         GetSurfaceNormalCached(p.position, p.last_pos_tuple, p.cached_normal)
    [] variant = "buildv06" ->
         [normal |-> GetSurfaceNormalRounded(p.position),
          last_pos_tuple |-> p.last_pos_tuple,
          cached_normal |-> p.cached_normal]
    [] variant = "b33132" ->
         [normal |-> GetSurfaceNormalPlain(p.position),
          last_pos_tuple |-> p.last_pos_tuple,
          cached_normal |-> p.cached_normal]
    [] OTHER ->
         [normal |-> Normalized(p.position),
          last_pos_tuple |-> p.last_pos_tuple,
          cached_normal |-> p.cached_normal]

\* --------------------------------------------------------- movement input
\* Vec3(move_x, 0, move_z).normalized(), and v2's division of move_x and
\* move_z by move_length: the unit input (in 1/NSCALE), zero for no input.
UnitInput(in) == Normalized(<<MoveX(in) * NSCALE, 0, MoveZ(in) * NSCALE>>)

NoMoveInput(in) == MoveX(in) = 0 /\ MoveZ(in) = 0

\* (mutation: full authority whatever grounded is)
ControlTenthsFull(variant, grounded) == 10
\* (Physics.AIR_CONTROL if not self.grounded else 1.0), in tenths
ControlTenths(variant, grounded) ==
  IF grounded THEN 10 ELSE AirControlTenths(variant)

\* move_direction of v2 and buildv06:
\*   self.forward * move_z + self.right * move_x  (unit input)
MoveDirectionAxes(in) ==
  LET u == UnitInput(in)
  IN  VAdd(NScale(in.forward, u[3]), NScale(in.right, u[1]))

\* (axis - surface_normal * surface_normal.dot(axis)).normalized()
TangentOf(axis, n) == Normalized(VSub(axis, NScale(n, Dot(axis, n))))

\* move_direction of v3.0 and b33132:
\*   (tangent_forward * move_z + tangent_right * move_x).normalized()
MoveDirectionTangent(in, n) ==
  IF NoMoveInput(in) THEN Zero3
  ELSE Normalized(VAdd(VMulRat(TangentOf(in.forward, n), MoveZ(in), 1),
                       VMulRat(TangentOf(in.right, n), MoveX(in), 1)))

\* move_direction of the four SphericalPlayer classes.
MoveDirection(variant, in, n) ==
  IF variant \in {"v2", "buildv06"}
  THEN MoveDirectionAxes(in)
  ELSE MoveDirectionTangent(in, n)

\* move_amount = move_direction * self.speed * (AIR_CONTROL or 1.0)
MoveAmount(variant, in, n, grounded) ==
  VMulRat(NScale(MoveDirection(variant, in, n), MOVE_SPEED * SCALE),
          ControlTenths(variant, grounded), 10)

\* move_direction of b33134k: the input projected on the plane of self.up,
\* normalized when its length is > 0.
MoveDirectionK(in, up) ==
  LET move_input == VAdd(VMulRat(in.forward, MoveZ(in), 1),
                         VMulRat(in.right, MoveX(in), 1))
      projected == VSub(move_input, NScale(up, Dot(move_input, up)))
  IN  IF Length(projected) > 0 THEN Normalized(projected) ELSE projected

\* ------------------------------------------------------ collision response
\* (mutation: the whole height added to the radius)
GroundsWithHeight(dist, target) ==
  dist <= target + (PLAYER_HEIGHT * SCALE) \div 2
\* (mutation: contact only one unit below the target distance)
GroundsDeep(dist, target) == dist <= target - SCALE
\* (mutation: the collision test never succeeds)
GroundsNever(dist, target) == FALSE
\* if distance_from_center <= target_distance
Grounds(dist, target) == dist <= target

\* (mutation: no positional correction)
SnapNone(pos, target) == pos
\* self.position.normalized() * target_distance
Snap(pos, target) == NScale(Normalized(pos), target)

\* radial_velocity = velocity.dot(n); if < 0: velocity -= n * radial_velocity
CancelRadial(vel, n) ==
  LET radial_velocity == Dot(vel, n)
  IN  IF radial_velocity < 0 THEN VSub(vel, NScale(n, radial_velocity))
      ELSE vel

\* (mutation: no damping)
FrictionNone(vel) == vel
\* velocity *= FRICTION
Friction(vel) == VMulRat(vel, FRICTION_TENTHS, 10)

\* --------------------------------------------------------- camera and yaw
\* camera_pivot.rotation_x after the frame's mouse look, clamped to
\* [-90, 90] degrees (b33134k does not scale by time.dt).
\* mouse.velocity[1] * sensitivity [* time.dt]
PitchDelta(variant, in) ==
  IF variant = "b33134k"
  THEN in.mouse[2] * MouseSensitivity(variant)
  ELSE MulDt(in.mouse[2] * MouseSensitivity(variant), in)

PitchAfter(variant, pitch, in) ==
  Clamp(pitch - PitchDelta(variant, in), 0 - 90 * SCALE, 90 * SCALE)

\* self.rotation after rotation_y += mouse.velocity[0] * sensitivity [* dt]
RotationAfter(variant, rotation, in) ==
  LET delta == IF variant = "b33134k"
               THEN in.mouse[1] * MouseSensitivity(variant)
               ELSE MulDt(in.mouse[1] * MouseSensitivity(variant), in)
  IN  <<rotation[1], rotation[2] + delta, rotation[3]>>

\* ------------------------------------------------------------------ state
VARIABLES
  variant,                  \* which of the five source files is running
  position,                 \* self.position
  velocity,                 \* self.velocity
  grounded,                 \* self.grounded
  start_pos,                \* self.start_pos
  rotation,                 \* self.rotation (degrees)
  camera_pivot_rotation_x,  \* self.camera_pivot.rotation_x (degrees)
  last_pos_tuple,           \* self._last_pos_tuple
  cached_normal,            \* self._cached_normal
  up,                       \* self.up, where the variant reads it
  planet_radius,            \* Physics.PLANET_RADIUS (SURFACE_R in b33134k)
  player_height,            \* Physics.PLAYER_HEIGHT
  held_space,               \* held_keys['space'], where the run tracks it
  budget,                   \* frame budget spent by the update() calls
  lastOp,                   \* the handler that ran last
  pre,                      \* the state that handler started in
  aux,                      \* what the last update() computed on its way:
                            \* the normal it used, move_direction,
                            \* move_amount, velocity after the input step
                            \* (after_input), after gravity (before_cancel)
                            \* and after the radial cancellation, the
                            \* integrated position, whether friction applied
  hist                      \* jump/landing history

vars == <<variant, position, velocity, grounded, start_pos, rotation,
          camera_pivot_rotation_x, last_pos_tuple, cached_normal, up,
          planet_radius, player_height, held_space, budget, lastOp, pre,
          aux, hist>>

\* The controller object.
Self ==
  [position |-> position, velocity |-> velocity, grounded |-> grounded,
   start_pos |-> start_pos, rotation |-> rotation,
   pitch |-> camera_pivot_rotation_x, last_pos_tuple |-> last_pos_tuple,
   cached_normal |-> cached_normal, up |-> up,
   target_distance |-> TargetDistanceOf(variant, planet_radius, player_height)]

WorldUp == <<0, NSCALE, 0>>
NoAux == [integrated |-> Zero3, friction |-> FALSE, normal |-> Zero3,
          before_cancel |-> Zero3, after_cancel |-> Zero3, in |-> None,
          move_direction |-> Zero3, move_amount |-> Zero3,
          after_input |-> Zero3]

\* The state a handler starts in.
Snapshot == [self |-> Self, lastOp |-> lastOp, aux |-> aux, hist |-> hist,
             held_space |-> held_space]

\* Nothing has happened yet: no jump, no landing, no jump() call in the
\* current press of the space key.
NoHist == [jumps |-> 0, landed |-> FALSE, doubleJump |-> FALSE,
           pressCalls |-> 0]

\* ------------------------------------------------------------ update()
\* (mutation: friction regardless of the keys held)
FrictionWhateverInput(variant_, in, startGrounded, hit) ==
  IF variant_ = "b33134k" THEN startGrounded ELSE hit

\* Does this frame multiply velocity by FRICTION?  b33134k decides before
\* integrating, from the grounded flag the frame starts with and from
\* any(held_keys.values()); the others decide inside the collision branch,
\* from the movement input.
FrictionApplies(variant_, in, startGrounded, hit) ==
  IF variant_ = "b33134k"
  THEN startGrounded /\ ~AnyKeyHeld(in)
  ELSE hit /\ NoMoveInput(in)

\* update() of v2, v3.0, buildv06 and b33132.
UpdateSpherical(variant_, p, in) ==
  LET q == SurfaceNormal(variant_, p)
      n == q.normal
      move_amount == MoveAmount(variant_, in, n, p.grounded)
      gravity_force == VNeg(NScale(n, GRAVITY * SCALE))
      velocity1 == VAdd(p.velocity, VMulDt(gravity_force, in))
      integrated == VAdd(p.position, VMulDt(VAdd(velocity1, move_amount), in))
      hit == Grounds(Length(integrated), p.target_distance)
      fr == FrictionApplies(variant_, in, p.grounded, hit)
      cancelled == CancelRadial(velocity1, n)
  IN  [position |-> IF hit THEN Snap(integrated, p.target_distance)
                    ELSE integrated,
       velocity |-> IF hit
                    THEN (IF fr THEN Friction(cancelled) ELSE cancelled)
                    ELSE velocity1,
       grounded |-> hit,
       start_pos |-> p.start_pos,
       target_distance |-> p.target_distance,
       rotation |-> RotationAfter(variant_, p.rotation, in),
       pitch |-> PitchAfter(variant_, p.pitch, in),
       last_pos_tuple |-> q.last_pos_tuple,
       cached_normal |-> q.cached_normal,
       up |-> IF variant_ = "buildv06" THEN n ELSE p.up,
       aux |-> [integrated |-> integrated, friction |-> fr, normal |-> n,
                before_cancel |-> velocity1,
                after_cancel |-> IF hit THEN cancelled ELSE velocity1,
                in |-> in,
                move_direction |-> MoveDirection(variant_, in, n),
                move_amount |-> move_amount,
                after_input |-> p.velocity]]

\* update() of b33134k.
UpdateK(variant_, p, in) ==
  LET up_ == Normalized(p.position)
      move_direction == MoveDirectionK(in, up_)
      fr == FrictionApplies(variant_, in, p.grounded, FALSE)
      target_velocity == NScale(move_direction, MOVE_SPEED * SCALE)
      blended == VAdd(VMulRat(p.velocity, 8, 10),
                      VMulRat(target_velocity, 2, 10))
      air == VMulDt(VMulRat(NScale(move_direction, MOVE_SPEED * SCALE),
                            AirControlTenths(variant_), 10), in)
      velocity1 == IF p.grounded
                   THEN (IF fr THEN Friction(blended) ELSE blended)
                   ELSE VAdd(p.velocity, air)
      velocity2 == VAdd(velocity1,
                        VMulDt(VNeg(NScale(up_, GRAVITY * SCALE)), in))
      integrated == VAdd(p.position, VMulDt(velocity2, in))
      hit == Grounds(Length(integrated), p.target_distance)
  IN  [position |-> IF hit THEN Snap(integrated, p.target_distance)
                    ELSE integrated,
       velocity |-> IF hit THEN CancelRadial(velocity2, up_) ELSE velocity2,
       grounded |-> hit,
       start_pos |-> p.start_pos,
       target_distance |-> p.target_distance,
       rotation |-> RotationAfter(variant_, p.rotation, in),
       pitch |-> PitchAfter(variant_, p.pitch, in),
       last_pos_tuple |-> p.last_pos_tuple,
       cached_normal |-> p.cached_normal,
       up |-> up_,
       aux |-> [integrated |-> integrated, friction |-> fr, normal |-> up_,
                before_cancel |-> velocity2,
                after_cancel |-> IF hit THEN CancelRadial(velocity2, up_)
                                 ELSE velocity2,
                in |-> in,
                move_direction |-> move_direction,
                move_amount |-> Zero3,
                after_input |-> velocity1]]

UpdateOf(variant_, p, in) ==
  IF variant_ = "b33134k" THEN UpdateK(variant_, p, in)
  ELSE UpdateSpherical(variant_, p, in)

\* -------------------------------------------------------------- jump()
\* (mutation: no grounded test)
CanJumpAlways(p) == TRUE
\* if self.grounded:
CanJump(p) == p.grounded

\* The impulse direction and the cache the query leaves: the (cached)
\* get_surface_normal(self.position) in v2, v3.0 and b33132, self.up in
\* buildv06 and b33134k.
JumpNormal(variant_, p) ==
  IF variant_ \in {"buildv06", "b33134k"}
  THEN [normal |-> p.up, last_pos_tuple |-> p.last_pos_tuple,
        cached_normal |-> p.cached_normal]
  ELSE SurfaceNormal(variant_, p)

\* (mutation: grounded left as it was)
JumpOfStaysGrounded(variant_, p) ==
  IF CanJump(p)
  THEN LET q == JumpNormal(variant_, p)
       IN  [p EXCEPT !.velocity = VAdd(p.velocity,
                                       NScale(q.normal, JumpHeight(variant_))),
                     !.last_pos_tuple = q.last_pos_tuple,
                     !.cached_normal = q.cached_normal]
  ELSE p

JumpOf(variant_, p) ==
  IF CanJump(p)
  THEN LET q == JumpNormal(variant_, p)
       IN  [p EXCEPT !.velocity = VAdd(p.velocity,
                                       NScale(q.normal, JumpHeight(variant_))),
                     !.grounded = FALSE,
                     !.last_pos_tuple = q.last_pos_tuple,
                     !.cached_normal = q.cached_normal]
  ELSE p

\* ---------------------------------------------------- reset_position()
\* b33134k has no reset_position().
HasReset(variant_) == variant_ /= "b33134k"

\* (mutation: start_pos aliases the live position)
ResetTargetAliased(variant_, p) == p.position
\* self.position = self.start_pos.copy(); Vec3(0, 0, 0) in b33132.
ResetTarget(variant_, p) ==
  IF variant_ = "b33132" THEN Zero3 ELSE p.start_pos

\* rotation = Vec3(0, 0, 0) also returns the axes of the entity to the
\* world axes.
ResetOf(variant_, p) ==
  [p EXCEPT !.position = ResetTarget(variant_, p),
            !.velocity = Zero3,
            !.rotation = Zero3,
            !.pitch = 0,
            !.up = WorldUp]

\* ---------------------------------------------------------- specification
Init ==
  /\ variant \in Variants
  /\ position = SpawnOf(variant)
  /\ velocity = Zero3
  /\ grounded = (variant = "b33134k")
  /\ start_pos = IF variant = "b33132" THEN Zero3 ELSE SpawnOf(variant)
  /\ rotation = Zero3
  /\ camera_pivot_rotation_x = 0
  /\ last_pos_tuple = None
  /\ cached_normal = None
  /\ up = WorldUp
  /\ planet_radius = PLANET_RADIUS
  /\ player_height = PLAYER_HEIGHT
  /\ held_space = FALSE
  /\ budget = 0
  /\ lastOp = "init"
  /\ aux = NoAux
  /\ hist = NoHist
  /\ pre = Snapshot

\* The controller takes the fields of the record r.
Becomes(r) ==
  /\ position' = r.position
  /\ velocity' = r.velocity
  /\ grounded' = r.grounded
  /\ start_pos' = r.start_pos
  /\ rotation' = r.rotation
  /\ camera_pivot_rotation_x' = r.pitch
  /\ last_pos_tuple' = r.last_pos_tuple
  /\ cached_normal' = r.cached_normal
  /\ up' = r.up

\* One frame of a constructed controller, its input taken from ins.
Frame(ins) ==
  /\ lastOp /= "new"
  /\ \E in \in ins :
       LET r == UpdateOf(variant, Self, in)
       IN  /\ budget + FrameCost(in) <= MaxBudget
           /\ budget' = budget + FrameCost(in)
           /\ Becomes(r)
           /\ aux' = r.aux
           /\ hist' = [hist EXCEPT !.landed = hist.landed \/ r.grounded]
  /\ lastOp' = "update"
  /\ pre' = Snapshot
  /\ UNCHANGED <<variant, planet_radius, player_height, held_space>>

\* One frame: the engine calls update() with this frame's input.
Update == Frame(Inputs)

\* The history after a jump() that took the controller to r.
JumpHist(r) ==
  IF r.velocity /= velocity
  THEN [hist EXCEPT !.jumps = IF hist.jumps < 2 THEN hist.jumps + 1 ELSE 2,
                    !.landed = FALSE,
                    !.doubleJump = hist.doubleJump
                                   \/ (hist.jumps > 0 /\ ~hist.landed)]
  ELSE hist

\* The command jump() (the key-down event 'space' where the file has an
\* input handler).
Jump ==
  /\ LET r == JumpOf(variant, Self)
     IN  /\ Becomes(r)
         /\ hist' = JumpHist(r)
  /\ lastOp' = "jump"
  /\ pre' = Snapshot
  /\ aux' = NoAux
  /\ UNCHANGED <<variant, planet_radius, player_height, held_space, budget>>

\* The command reset_position() (the key-down event 'r').
ResetPosition ==
  /\ HasReset(variant)
  /\ Becomes(ResetOf(variant, Self))
  /\ lastOp' = "reset"
  /\ pre' = Snapshot
  /\ aux' = NoAux
  /\ UNCHANGED <<variant, planet_radius, player_height, held_space, budget,
                 hist>>

Next == Update \/ Jump \/ ResetPosition

Spec == Init /\ [][Next]_vars

\* ------------------------------------------------------- the key events
\* What the engine passes to input(key) for the space key (pressed, repeated
\* while held, released) and for the r key.
KeyEvents == {"space", "space hold", "space up", "r"}

\* v2, buildv06 (module-level input) and b33134k (the method input) handle
\* key events; v3.0 and b33132 define no handler.
HasInputHandler(variant_) == variant_ \in {"v2", "buildv06", "b33134k"}

\* (mutation: the repeat event jumps as well)
IsJumpKeyOrHold(key) == key \in {"space", "space hold"}
\* key == 'space'
IsJumpKey(key) == key = "space"

\* elif key == 'r' (not in b33134k)
IsResetKey(variant_, key) == variant_ /= "b33134k" /\ key = "r"

\* input(key): the controller it leaves.
InputOf(variant_, p, key) ==
  CASE ~HasInputHandler(variant_) -> p
    [] HasInputHandler(variant_) /\ IsJumpKey(key) -> JumpOf(variant_, p)
    [] HasInputHandler(variant_) /\ ~IsJumpKey(key)
         /\ IsResetKey(variant_, key) -> ResetOf(variant_, p)
    [] OTHER -> p

\* The frames of a run with the space key: held_keys holds the space key
\* while it is down.
KeyInputs(held) ==
  { In(<<1, 4>>,  0, 0, 0, 0, held, <<0, 0>>, AxisZ),
    In(<<7, 100>>, 0, 0, 0, 0, held, <<0, 0>>, AxisZ),
    In(<<1, 10>>, 1, 0, 0, 0, held, <<0, 0>>, AxisZ) }

\* The engine delivers one key event.  hist.pressCalls counts the jump()
\* calls made since the space key went down.
KeyEvent ==
  /\ lastOp /= "new"
  /\ \E key \in KeyEvents :
       LET handled == HasInputHandler(variant)
           jumps == handled /\ IsJumpKey(key)
           resets == handled /\ ~IsJumpKey(key) /\ IsResetKey(variant, key)
           r == InputOf(variant, Self, key)
           calls == IF key \in {"space", "space up"} THEN 0
                    ELSE hist.pressCalls
       IN  /\ key = "space" => ~held_space
           /\ key \in {"space hold", "space up"} => held_space
           /\ held_space' = IF key = "space" THEN TRUE
                            ELSE IF key = "space up" THEN FALSE
                            ELSE held_space
           /\ Becomes(r)
           /\ hist' = [(IF jumps THEN JumpHist(r) ELSE hist) EXCEPT
                         !.pressCalls = IF jumps
                                        THEN (IF calls < 2 THEN calls + 1
                                              ELSE 2)
                                        ELSE calls]
           /\ lastOp' = IF jumps THEN "jump"
                        ELSE IF resets THEN "reset" ELSE key
  /\ pre' = Snapshot
  /\ aux' = NoAux
  /\ UNCHANGED <<variant, planet_radius, player_height, budget>>

\* One frame while the key state is what it is.
HeldFrame == Frame(KeyInputs(held_space))

NextKeys == KeyEvent \/ HeldFrame

SpecKeys == Init /\ [][NextKeys]_vars

\* ------------------------------------------------ the free-fall scenario
\* A frame of 1/60 s with no key held and the mouse at rest.
FallInput == In(<<1, 60>>, 0, 0, 0, 0, FALSE, <<0, 0>>, AxisZ)

\* The classes whose player is constructed at (0, 34, 0).
InitFall ==
  /\ variant \in {"v2", "v3_0", "buildv06"}
  /\ position = SpawnOf(variant)
  /\ velocity = Zero3
  /\ grounded = FALSE
  /\ start_pos = SpawnOf(variant)
  /\ rotation = Zero3
  /\ camera_pivot_rotation_x = 0
  /\ last_pos_tuple = None
  /\ cached_normal = None
  /\ up = WorldUp
  /\ planet_radius = PLANET_RADIUS
  /\ player_height = PLAYER_HEIGHT
  /\ held_space = FALSE
  /\ budget = 0
  /\ lastOp = "init"
  /\ aux = NoAux
  /\ hist = NoHist
  /\ pre = Snapshot

\* One frame of the scenario: update() with FallInput; budget counts the
\* frames.
Fall ==
  /\ budget < FallFrames
  /\ LET r == UpdateOf(variant, Self, FallInput)
     IN  /\ Becomes(r)
         /\ aux' = r.aux
         /\ hist' = [hist EXCEPT !.landed = hist.landed \/ r.grounded]
  /\ budget' = budget + 1
  /\ lastOp' = "update"
  /\ pre' = Snapshot
  /\ UNCHANGED <<variant, planet_radius, player_height, held_space>>

NextFall == Fall

SpecFall == InitFall /\ [][NextFall]_vars

\* ------------------------------------------- construction and the config
\* Configurations with a planet radius <= 0 or a negative player height.
InvalidConfigs ==
  { [radius |-> 0, height |-> PLAYER_HEIGHT],
    [radius |-> 0 - 1, height |-> PLAYER_HEIGHT],
    [radius |-> PLANET_RADIUS, height |-> 0 - 2] }

\* The frames of a run under such a configuration.
ConfigInputs ==
  { In(<<1, 4>>,  0, 0, 0, 0, FALSE, <<0, 0>>, AxisZ),
    In(<<1, 10>>, 1, 0, 0, 0, FALSE, <<0, 0>>, AxisZ),
    In(<<1, 4>>,  0, 0, 1, 0, FALSE, <<0, 0>>, AxisZ) }

\* The module is loaded with its physics constants; no controller yet.
InitConfig ==
  /\ variant \in Variants
  /\ \E c \in InvalidConfigs :
       planet_radius = c.radius /\ player_height = c.height
  /\ position = Zero3
  /\ velocity = Zero3
  /\ grounded = FALSE
  /\ start_pos = Zero3
  /\ rotation = Zero3
  /\ camera_pivot_rotation_x = 0
  /\ last_pos_tuple = None
  /\ cached_normal = None
  /\ up = WorldUp
  /\ held_space = FALSE
  /\ budget = 0
  /\ lastOp = "new"
  /\ aux = NoAux
  /\ hist = NoHist
  /\ pre = Snapshot

\* __init__ and the module-level construction of the player: the constants
\* are read as they are, nothing tests them.
Construct ==
  /\ lastOp = "new"
  /\ position' = SpawnFor(variant, planet_radius, player_height)
  /\ velocity' = Zero3
  /\ grounded' = (variant = "b33134k")
  /\ start_pos' = IF variant = "b33132" THEN Zero3
                  ELSE SpawnFor(variant, planet_radius, player_height)
  /\ lastOp' = "init"
  /\ pre' = Snapshot
  /\ UNCHANGED <<variant, rotation, camera_pivot_rotation_x, last_pos_tuple,
                 cached_normal, up, planet_radius, player_height,
                 held_space, budget, aux, hist>>

\* One frame under that configuration.
UpdateConfigured == Frame(ConfigInputs)

NextConfig == Construct \/ UpdateConfigured

SpecConfig == InitConfig /\ [][NextConfig]_vars

\* ------------------------------------- get_surface_normal as a function
\* Positions get_surface_normal is asked about: the planet center, points
\* within one rounding cell of it, points of one cell on the stand-off
\* sphere, and points elsewhere.
QueryPositions ==
  { <<0, 0, 0>>, <<1, 0, 0>>, <<10, 0, 0>>, <<0, 0 - 10, 0>>,
    <<0, 33 * SCALE, 0>>, <<40, 33 * SCALE, 0>>, <<0, 33 * SCALE, 0 - 40>>,
    <<0, 34 * SCALE, 0>>, <<0, 32969, 0 - 1423>>, <<20 * SCALE, 0, 0>> }

\* The classes that define get_surface_normal.
HasGetSurfaceNormal(variant_) == variant_ /= "b33134k"

InitQuery ==
  /\ variant \in {v \in Variants : HasGetSurfaceNormal(v)}
  /\ position = SpawnOf(variant)
  /\ velocity = Zero3
  /\ grounded = FALSE
  /\ start_pos = IF variant = "b33132" THEN Zero3 ELSE SpawnOf(variant)
  /\ rotation = Zero3
  /\ camera_pivot_rotation_x = 0
  /\ last_pos_tuple = None
  /\ cached_normal = None
  /\ up = WorldUp
  /\ planet_radius = PLANET_RADIUS
  /\ player_height = PLAYER_HEIGHT
  /\ held_space = FALSE
  /\ budget = 0
  /\ lastOp = "init"
  /\ aux = NoAux
  /\ hist = NoHist
  /\ pre = Snapshot

\* self.get_surface_normal(pos) for an avatar standing at pos: the result
\* is kept in aux.normal, the cache is what the call leaves.
Query ==
  /\ \E pos \in QueryPositions :
       LET q == SurfaceNormal(variant, [Self EXCEPT !.position = pos])
       IN  /\ position' = pos
           /\ last_pos_tuple' = q.last_pos_tuple
           /\ cached_normal' = q.cached_normal
           /\ aux' = [NoAux EXCEPT !.normal = q.normal]
  /\ lastOp' = "query"
  /\ pre' = Snapshot
  /\ UNCHANGED <<variant, velocity, grounded, start_pos, rotation,
                 camera_pivot_rotation_x, up, planet_radius, player_height,
                 held_space, budget, hist>>

NextQuery == Query

SpecQuery == InitQuery /\ [][NextQuery]_vars

\* ------------------------------------------------------------ vocabulary
\* The unit vector from the planet center to pos: the surface normal there.
NormalAt(pos) == Normalized(pos)
\* The component of v perpendicular to the unit vector n.
Perp(v, n) == VSub(v, NScale(n, Dot(v, n)))
\* Tangential speed of velocity v at position pos.
TanSpeed(v, pos) == Length(Perp(v, NormalAt(pos)))
Near(a, b) == Abs(a - b) <= Tol
VNear(a, b) == Near(a[1], b[1]) /\ Near(a[2], b[2]) /\ Near(a[3], b[3])
\* radius + height/2, the stand-off distance the specification names.
StandOff == PLANET_RADIUS * SCALE + (PLAYER_HEIGHT * SCALE) \div 2

\* ------------------------------------------------------------------ C1
\* C1: jump() called while grounded is false is a no-op: velocity, position
\* and grounded are what they were before the call.
C1_JumpAirborneNoop ==
  (lastOp = "jump" /\ ~pre.self.grounded) =>
    /\ velocity = pre.self.velocity
    /\ position = pre.self.position
    /\ grounded = pre.self.grounded

\* An airborne avatar that has moved through update() receives jump().
C1_Witness ==
  /\ lastOp = "jump" /\ ~pre.self.grounded
  /\ pre.lastOp = "update" /\ pre.self.velocity /= Zero3

\* ------------------------------------------------------------------ C2
\* C2: a jump() made while grounded leaves grounded false, and between two
\* jump() calls that change velocity some update() grounded the avatar.
C2_NoDoubleJump ==
  /\ (lastOp = "jump" /\ pre.self.grounded) => ~grounded
  /\ (lastOp = "jump" /\ velocity /= pre.self.velocity) => ~grounded
  /\ ~hist.doubleJump

\* A second velocity-changing jump, after a landing.
C2_Witness ==
  lastOp = "jump" /\ velocity /= pre.self.velocity /\ hist.jumps = 2

\* ------------------------------------------------------------------ C3
\* C3: jump() called while grounded raises dot(velocity, n) by jump_height
\* and leaves the component of velocity perpendicular to n unchanged, n being
\* the surface normal at the avatar's position.
C3_JumpAlongNormal ==
  (lastOp = "jump" /\ pre.self.grounded /\ position /= Zero3) =>
    LET n == NormalAt(position)
    IN  /\ Near(Dot(velocity, n) - Dot(pre.self.velocity, n),
                JumpHeight(variant))
        /\ VNear(Perp(velocity, n), Perp(pre.self.velocity, n))

C8_PitchClamped ==
  lastOp \in {"update", "reset"} =>
    /\ camera_pivot_rotation_x >= 0 - 90 * SCALE
    /\ camera_pivot_rotation_x <= 90 * SCALE

\* An update() whose mouse look would have left the range.
C8_Witness ==
  /\ lastOp = "update"
  /\ Abs(camera_pivot_rotation_x) = 90 * SCALE
  /\ Abs(pre.self.pitch - PitchDelta(variant, aux.in)) > 90 * SCALE

\* ------------------------------------------------------------------ C5
\* C5 (as claimed): an update() that starts above radius + height/2 and
\* integrates to or below it ends at exactly that distance.
C5_SnapsToStandOff ==
  (/\ lastOp = "update"
   /\ Length(pre.self.position) > StandOff
   /\ Length(aux.integrated) <= StandOff) =>
    Near(Length(position), StandOff)

\* C5 (amended): an update() that starts above the variant's target distance
\* (radius + height/2; the radius alone in b33134k) and integrates to or
\* below it ends at exactly the target distance.
C5_SnapsToTarget ==
  (/\ lastOp = "update"
   /\ Length(pre.self.position) > TargetDistance(variant)
   /\ Length(aux.integrated) <= TargetDistance(variant)) =>
    Near(Length(position), TargetDistance(variant))

\* A frame that starts above the target and penetrates it by more than Tol.
C5_Witness ==
  /\ lastOp = "update"
  /\ Length(pre.self.position) > TargetDistance(variant)
  /\ Length(aux.integrated) < TargetDistance(variant) - Tol
  /\ position /= aux.integrated

\* ------------------------------------------------------------------ C6
\* C6: after an update() that grounds the avatar, dot(velocity, n) >= 0 for
\* the surface normal n at the position the update() leaves, and the
\* component of velocity tangential to n is the one it had before the
\* radial cancellation.
C6_NoInwardAtNewNormal ==
  (lastOp = "update" /\ grounded /\ position /= Zero3) =>
    LET n == NormalAt(position)
    IN  /\ Dot(velocity, n) >= 0 - Tol
        /\ VNear(Perp(aux.after_cancel, n), Perp(aux.before_cancel, n))


\* ------------------------------------------------------------------ C7
\* C7 (as claimed): update() leaves grounded true exactly when the
\* integrated position is within radius + height/2 of the center.
C7_GroundedIffStandOff ==
  lastOp = "update" => (grounded <=> Length(aux.integrated) <= StandOff)

\* C7 (amended): update() leaves grounded true exactly when the integrated
\* position is within the variant's target distance (radius + height/2; the
\* radius alone in b33134k), whatever grounded was before.
C7_GroundedIffTarget ==
  lastOp = "update" =>
    (grounded <=> Length(aux.integrated) <= TargetDistance(variant))

\* A frame that starts grounded and ends airborne.
C7_Witness ==
  lastOp = "update" /\ pre.self.grounded /\ ~grounded

\* ------------------------------------------------------------------ C9
\* C9 (as claimed): update() applies friction exactly when the frame's
\* collision check grounds the avatar and there is no movement input.
C9_FrictionIffGroundedAtRest ==
  lastOp = "update" =>
    (aux.friction <=> (grounded /\ NoMoveInput(aux.in)))

\* C9 (amended): in v2, v3.0, buildv06 and b33132 update() applies friction
\* exactly when the frame's collision check grounds the avatar and there is
\* no movement input; in b33134k exactly when the frame starts grounded and
\* no key at all is held.  A frame with movement input never applies it.
C9_FrictionRule ==
  lastOp = "update" =>
    /\ variant /= "b33134k" =>
         (aux.friction <=> (grounded /\ NoMoveInput(aux.in)))
    /\ variant = "b33134k" =>
         (aux.friction <=> (pre.self.grounded /\ ~AnyKeyHeld(aux.in)))
    /\ ~NoMoveInput(aux.in) => ~aux.friction
    /\ aux.friction => velocity = Friction(aux.after_cancel)
                       \/ variant = "b33134k"

\* Friction scales a non-zero velocity.
C9_Witness ==
  /\ lastOp = "update" /\ aux.friction
  /\ variant /= "b33134k"
  /\ aux.after_cancel /= Zero3 /\ velocity /= aux.after_cancel

\* ----------------------------------------------------------------- C10
\* Two consecutive update() calls, both without movement input and both
\* ending grounded.
RestingFrames ==
  /\ lastOp = "update" /\ grounded /\ NoMoveInput(aux.in)
  /\ pre.lastOp = "update" /\ pre.self.grounded /\ NoMoveInput(pre.aux.in)

\* FRICTION * x
TimesFriction(x) == RDiv(x * FRICTION_TENTHS, 10)

\* C10 (as claimed): over such frames the tangential speed does not grow and
\* is FRICTION times the tangential speed after the previous frame.
C10_DecayByFriction ==
  RestingFrames =>
    /\ TanSpeed(velocity, position)
         <= TanSpeed(pre.self.velocity, pre.self.position) + Tol
    /\ Near(TanSpeed(velocity, position),
            TimesFriction(TanSpeed(pre.self.velocity, pre.self.position)))

\* C10 (amended): over such frames the tangential speed is at most FRICTION
\* times the tangential speed after the previous frame: FRICTION times it in
\* v2, v3.0, buildv06 and b33132; in b33134k 0.8 * FRICTION times it, and
\* 0.8 times it in a frame with a key held.
C10_DecayAtLeastFriction ==
  RestingFrames =>
    LET before == TanSpeed(pre.self.velocity, pre.self.position)
        after == TanSpeed(velocity, position)
    IN  /\ after <= TimesFriction(before) + Tol
        /\ variant /= "b33134k" => Near(after, TimesFriction(before))
        /\ variant = "b33134k" =>
             Near(after, IF AnyKeyHeld(aux.in) THEN RDiv(before * 8, 10)
                         ELSE TimesFriction(RDiv(before * 8, 10)))

\* A resting frame that slows a real tangential speed.
C10_Witness ==
  /\ RestingFrames
  /\ TanSpeed(pre.self.velocity, pre.self.position) > 100 * Tol
  /\ TanSpeed(velocity, position) > 0

\* ----------------------------------------------------------------- C11
\* Two unit vectors (in 1/NSCALE) that agree up to rounding.
NNear(a, b) ==
  /\ Abs(a[1] - b[1]) <= NSCALE \div 10000
  /\ Abs(a[2] - b[2]) <= NSCALE \div 10000
  /\ Abs(a[3] - b[3]) <= NSCALE \div 10000

\* C11: get_surface_normal(p) of a position p that is not the planet center
\* returns a vector of length 1, whatever was asked before.
C11_NormalUnitLength ==
  (lastOp = "query" /\ position /= Zero3) =>
    Abs(Length(aux.normal) - NSCALE) <= NSCALE \div 10000

\* ----------------------------------------------------------------- C12
\* C12: get_surface_normal(p) returns normalize(p - center) of the p it was
\* passed, whatever was asked before and whatever the cache holds.
C12_CacheTransparent ==
  lastOp = "query" => NNear(aux.normal, Normalized(position))

\* ----------------------------------------------------------------- C13
\* A vector of three defined numbers.
IsVec3(v) == Len(v) = 3 /\ \A i \in 1..3 : v[i] \in Int

C15_FallSettles ==
  /\ budget = FallFrames => hist.landed
  /\ (lastOp = "update" /\ hist.landed) =>
       /\ grounded
       /\ Near(Length(position), StandOff)
       /\ TanSpeed(velocity, position)
            <= TanSpeed(pre.self.velocity, pre.self.position)

\* The last frame of the scenario, the avatar resting on the sphere.
C15_Witness ==
  /\ budget = FallFrames /\ lastOp = "update"
  /\ grounded /\ pre.self.grounded
  /\ Length(position) < Length(SpawnOf(variant)) - SCALE \div 2

\* ----------------------------------------------------------------- C16
\* C16: in every state reached by update(), jump() and reset_position()
\* from construction, grounded implies that the avatar is within
\* radius + height/2 of the planet center.
C16_GroundedWithinStandOff ==
  grounded => Length(position) <= StandOff + Tol

\* ----------------------------------------------------------------- C17
\* C17: update() takes gravity along the surface normal of the position
\* the call starts at and picks the control authority (full speed or
\* AIR_CONTROL; blend or air force in b33134k) by the grounded value the
\* call starts with; the collision check (grounded, snap) is made on the
\* integrated position.
C17_StartOfFrameReads ==
  lastOp = "update" =>
    LET in == aux.in
        n0 == IF variant = "b33134k" THEN Normalized(pre.self.position)
              ELSE SurfaceNormal(variant, pre.self).normal
        authority == IF pre.self.grounded THEN 10
                     ELSE AirControlTenths(variant)
        full == NScale(aux.move_direction, MOVE_SPEED * SCALE)
        target == pre.self.target_distance
    IN  /\ aux.normal = n0
        /\ aux.before_cancel =
             VAdd(aux.after_input,
                  VMulDt(VNeg(NScale(n0, GRAVITY * SCALE)), in))
        /\ variant /= "b33134k" =>
             /\ aux.move_amount = VMulRat(full, authority, 10)
             /\ aux.after_input = pre.self.velocity
        /\ (variant = "b33134k" /\ ~pre.self.grounded) =>
             aux.after_input =
               VAdd(pre.self.velocity,
                    VMulDt(VMulRat(full, AirControlTenths(variant), 10), in))
        /\ (variant = "b33134k" /\ pre.self.grounded /\ ~aux.friction) =>
             aux.after_input = VAdd(VMulRat(pre.self.velocity, 8, 10),
                                    VMulRat(full, 2, 10))
        /\ aux.integrated =
             VAdd(pre.self.position,
                  VMulDt(VAdd(aux.before_cancel, aux.move_amount), in))
        /\ grounded <=> (Length(aux.integrated) <= target)
        /\ position = IF Length(aux.integrated) <= target
                      THEN NScale(Normalized(aux.integrated), target)
                      ELSE aux.integrated

\* A frame with movement input that starts airborne and ends grounded.
C17_Witness ==
  /\ lastOp = "update" /\ ~pre.self.grounded /\ grounded
  /\ variant /= "b33134k"
  /\ ~NoMoveInput(aux.in) /\ aux.move_amount /= Zero3

\* ----------------------------------------------------------------- C18
\* C18: a frame that starts airborne with movement input adds
\* move_direction * speed * AIR_CONTROL * dt to velocity, AIR_CONTROL < 1.
C18_AirInputAddedToVelocity ==
  (lastOp = "update" /\ ~pre.self.grounded /\ ~NoMoveInput(aux.in)) =>
    /\ AirControlTenths(variant) < 10
    /\ VNear(VSub(aux.after_input, pre.self.velocity),
             VMulDt(VMulRat(NScale(aux.move_direction, MOVE_SPEED * SCALE),
                            AirControlTenths(variant), 10), aux.in))

\* ----------------------------------------------------------------- C19
\* C19: a frame that starts grounded with movement input changes velocity
\* by velocity += move_direction * speed or by
\* velocity = velocity * 0.8 + (move_direction * speed) * 0.2.
C19_GroundedInputShapesVelocity ==
  (lastOp = "update" /\ pre.self.grounded /\ ~NoMoveInput(aux.in)) =>
    LET full == NScale(aux.move_direction, MOVE_SPEED * SCALE)
    IN  \/ VNear(aux.after_input, VAdd(pre.self.velocity, full))
        \/ VNear(aux.after_input, VAdd(VMulRat(pre.self.velocity, 8, 10),
                                       VMulRat(full, 2, 10)))

\* ----------------------------------------------------------------- C20
\* C20: jump() is called at most once per press of the space key, only by
\* the key-down event, and never by update(), however many frames and
\* landings the key stays down for.
C20_JumpEdgeTriggered ==
  /\ hist.pressCalls <= 1
  /\ lastOp = "jump" => (held_space /\ ~pre.held_space)
  /\ lastOp = "update" =>
       /\ hist.jumps = pre.hist.jumps
       /\ hist.pressCalls = pre.hist.pressCalls

\* The key still down after the jump it caused and the landing that
\* followed: a repeat event arrives and the avatar stays grounded.
C20_Witness ==
  /\ lastOp = "space hold" /\ pre.lastOp = "update"
  /\ held_space /\ hist.pressCalls = 1
  /\ hist.jumps > 0 /\ hist.landed
  /\ grounded /\ velocity = pre.self.velocity

\* ----------------------------------------------------------------- C21
\* The movement step of update() as a function of the held keys: every
\* combination of w, a, s, d, under either pair of engine axes.
KeyCombinations ==
  { In(<<1, 10>>, w, a, s, d, FALSE, <<0, 0>>, axes) :
      w \in {0, 1}, a \in {0, 1}, s \in {0, 1}, d \in {0, 1},
      axes \in {AxisZ, AxisX} }

\* Where the avatar stands when the keys are read: on the stand-off sphere
\* above the pole, and a quarter of the way round it.
MovePositions(variant_) ==
  { NScale(<<0, NSCALE, 0>>, TargetDistance(variant_)),
    NScale(<<0, 0, NSCALE>>, TargetDistance(variant_)) }

\* move_direction as update() computes it from the frame's normal.
MoveDirectionOf(variant_, in, n) ==
  IF variant_ = "b33134k" THEN MoveDirectionK(in, n)
  ELSE MoveDirection(variant_, in, n)

\* The vectors the movement step hands to a normalize step: v2 divides
\* (move_x, move_z) by its length inside the test for input; buildv06 calls
\* Vec3(move_x, 0, move_z).normalized() before any test; v3.0 and b33132
\* normalize the two projected camera axes before the test and the sum
\* inside it; b33134k normalizes the projection when its length is > 0.
NormalizeArgs(variant_, in, n) ==
  LET move_input == <<MoveX(in) * NSCALE, 0, MoveZ(in) * NSCALE>>
      fwd == VSub(in.forward, NScale(n, Dot(in.forward, n)))
      rgt == VSub(in.right, NScale(n, Dot(in.right, n)))
      sum == VAdd(VMulRat(Normalized(fwd), MoveZ(in), 1),
                  VMulRat(Normalized(rgt), MoveX(in), 1))
      k_input == VAdd(VMulRat(in.forward, MoveZ(in), 1),
                      VMulRat(in.right, MoveX(in), 1))
      projected == VSub(k_input, NScale(n, Dot(k_input, n)))
  IN  CASE variant_ = "v2" ->
             IF NoMoveInput(in) THEN {} ELSE {move_input}
        [] variant_ = "buildv06" -> {move_input}
        [] variant_ \in {"v3_0", "b33132"} ->
             {fwd, rgt} \cup (IF NoMoveInput(in) THEN {} ELSE {sum})
        [] OTHER ->
             IF Length(projected) > 0 THEN {projected} ELSE {}

InitMove ==
  /\ variant \in Variants
  /\ position \in MovePositions(variant)
  /\ velocity = Zero3
  /\ grounded = TRUE
  /\ start_pos = IF variant = "b33132" THEN Zero3 ELSE SpawnOf(variant)
  /\ rotation = Zero3
  /\ camera_pivot_rotation_x = 0
  /\ last_pos_tuple = None
  /\ cached_normal = None
  /\ up = WorldUp
  /\ planet_radius = PLANET_RADIUS
  /\ player_height = PLAYER_HEIGHT
  /\ held_space = FALSE
  /\ budget = 0
  /\ lastOp = "init"
  /\ aux = NoAux
  /\ hist = NoHist
  /\ pre = Snapshot

\* The movement step on one combination of keys: the normal it used and
\* the direction it found are kept in aux.
Move ==
  /\ \E in \in KeyCombinations :
       LET q == SurfaceNormal(variant, Self)
       IN  /\ last_pos_tuple' = q.last_pos_tuple
           /\ cached_normal' = q.cached_normal
           /\ aux' = [NoAux EXCEPT
                        !.in = in, !.normal = q.normal,
                        !.move_direction =
                          MoveDirectionOf(variant, in, q.normal)]
  /\ lastOp' = "move"
  /\ UNCHANGED <<variant, position, velocity, grounded, start_pos, rotation,
                 camera_pivot_rotation_x, up, planet_radius, player_height,
                 held_space, budget, hist, pre>>

NextMove == Move

SpecMove == InitMove /\ [][NextMove]_vars

UnitLength(v) == Abs(Length(v) - NSCALE) <= NSCALE \div 10000

\* C21: for every combination of held movement keys the movement direction
\* is the zero vector when moveX and moveZ are both zero and has unit
\* length otherwise, and no zero-length vector is handed to a normalize
\* step.
C21_DirectionZeroOrUnit ==
  lastOp = "move" =>
    /\ NoMoveInput(aux.in) => aux.move_direction = Zero3
    /\ ~NoMoveInput(aux.in) => UnitLength(aux.move_direction)
    /\ Zero3 \notin NormalizeArgs(variant, aux.in, aux.normal)

\* ----------------------------------------------------------------- C22
\* The avatar's local up axis.  buildv06 and b33134k align the entity at
\* the start of update() (look_at) and read self.up; v2 computes right and
\* forward from the normal but writes back the matrix the model already
\* has, and v3.0 and b33132 do not orient the entity at all: in these three
\* only rotation_y is ever written, a rotation about the up axis, which
\* therefore stays the world's.
UpAxis == up

\* C22: after every update() the avatar's local up axis equals the surface
\* normal at its position, whatever yaw input the updates had.
C22_UpIsSurfaceNormal ==
  lastOp = "update" /\ position /= Zero3 => NNear(UpAxis, NormalAt(position))

\* ----------------------------------------------------------------- C23
\* The quantized key of a position: each coordinate rounded to a multiple
\* of 1/cells (cells = 10: one decimal place; cells = 100: two).
QuantKey(pos, cells) ==
  <<RDiv(pos[1] * cells, SCALE), RDiv(pos[2] * cells, SCALE),
    RDiv(pos[3] * cells, SCALE)>>

\* The normal n returned for p was computed from a position with p's key.
ComputedInCell(p, n, cells, candidates) ==
  \E q \in candidates :
    QuantKey(q, cells) = QuantKey(p, cells) /\ n = Normalized(q)

\* The positions buildv06 computes normals from: the keys themselves.
RoundedQueryPositions ==
  { Vec3OfTuple2(PosTuple2(q)) : q \in QueryPositions }

RestVariants == {"v2", "v3_0", "buildv06", "b33132"}

RestPositions ==
  { <<0, 33 * SCALE, 0>>, <<SCALE \div 25, 33 * SCALE, 0>>,
    <<0, 0, 33 * SCALE>> }

\* Positions an earlier frame may have asked the normal of.
RestNeighbours ==
  { <<0, 33 * SCALE, 0>>, <<0 - SCALE \div 25, 33 * SCALE, 0>>,
    <<0, SCALE \div 25, 33 * SCALE>> }

\* What the single-slot cache of v2 and v3.0 may hold when the avatar has
\* come to rest at pos: nothing, or the normal of a position of the same
\* rounding cell; the other classes never write the two fields.
RestCaches(variant_, pos) ==
  {[last_pos_tuple |-> None, cached_normal |-> None]}
  \cup (IF variant_ \in {"v2", "v3_0"}
        THEN { [last_pos_tuple |-> PosTuple1(q),
                cached_normal |-> Normalized(q)] :
               q \in {x \in RestNeighbours : PosTuple1(x) = PosTuple1(pos)} }
        ELSE {})

\* Frames of an avatar at rest or just after a jump: no key, or one key.
RestInputs ==
  { In(<<1, 4>>,   0, 0, 0, 0, FALSE, <<0, 0>>, AxisZ),
    In(<<7, 100>>, 0, 0, 0, 0, FALSE, <<0, 0>>, AxisZ),
    In(<<1, 10>>,  0, 0, 1, 0, FALSE, <<0, 0>>, AxisZ),
    In(<<1, 10>>,  1, 0, 0, 0, FALSE, <<0, 0>>, AxisZ) }

InitRest ==
  /\ variant \in RestVariants
  /\ position \in RestPositions
  /\ velocity = Zero3
  /\ grounded = TRUE
  /\ start_pos = IF variant = "b33132" THEN Zero3 ELSE SpawnOf(variant)
  /\ rotation = Zero3
  /\ camera_pivot_rotation_x = 0
  /\ \E c \in RestCaches(variant, position) :
       /\ last_pos_tuple = c.last_pos_tuple
       /\ cached_normal = c.cached_normal
  /\ up = IF variant = "buildv06" THEN GetSurfaceNormalRounded(position)
          ELSE WorldUp
  /\ planet_radius = PLANET_RADIUS
  /\ player_height = PLAYER_HEIGHT
  /\ held_space = FALSE
  /\ budget = 0
  /\ lastOp = "init"
  /\ aux = NoAux
  /\ hist = [NoHist EXCEPT !.landed = TRUE]
  /\ pre = Snapshot

RestFrame == Frame(RestInputs)

NextRest == RestFrame \/ Jump

SpecRest == InitRest /\ [][NextRest]_vars

\* ----------------------------------------------------------------- C24
\* time.dt < jump_height / GRAVITY
ShortFrame(variant_, in) ==
  in.dt[1] * GRAVITY * SCALE < JumpHeight(variant_) * in.dt[2]

\* The state is the one a successful jump() from rest left.
JumpedFromRest ==
  /\ lastOp = "jump"
  /\ pre.self.grounded
  /\ pre.self.velocity = Zero3
  /\ Near(Length(pre.self.position), StandOff)
  /\ ~grounded

\* C24: after jump() succeeds for an avatar at rest on the surface, the
\* next update() with 0 < dt < jump_height / GRAVITY ends with grounded
\* false and with dot(velocity, normal) > 0.
C24_JumpSurvivesNextFrame ==
  [][(JumpedFromRest /\ lastOp' = "update" /\ ShortFrame(variant, aux'.in))
       => (~grounded' /\ Dot(velocity', NormalAt(position')) > 0)]_vars

\* ----------------------------------------------------------------- C25
\* C25 (as claimed): after every update() whose integrated position is not
\* the planet center, the avatar is at least radius + height/2 from the
\* center.
C25_NeverInsideStandOff ==
  (lastOp = "update" /\ aux.integrated /= Zero3) =>
    Length(position) >= StandOff - Tol

\* C25 (amended): after every update() whose integrated position is not
\* the planet center, the avatar is at least the variant's target distance
\* (radius + height/2; the radius alone in b33134k) from the center.
C25_NeverInsideTarget ==
  (lastOp = "update" /\ aux.integrated /= Zero3) =>
    Length(position) >= TargetDistance(variant) - Tol

\* A frame that starts grounded and integrates to a point inside the
\* sphere of the target distance, other than the center.
C25_Witness ==
  /\ lastOp = "update"
  /\ pre.self.grounded
  /\ aux.integrated /= Zero3
  /\ Length(aux.integrated) < TargetDistance(variant) - Tol
  /\ Length(position) >= TargetDistance(variant) - Tol

\* ----------------------------------------------------------------- C26
\* Frames with no key held and the mouse at rest.
StillInputs == {in \in RestInputs : ~AnyKeyHeld(in) /\ in.mouse = <<0, 0>>}

\* update() with no input, called again and again on an avatar at rest.
StillFrame == Frame(StillInputs)

NextStill == StillFrame

SpecStill == InitRest /\ [][NextStill]_vars

\* C26: an avatar at rest (grounded, at distance radius + height/2, zero
\* velocity) with no movement input has, after any number of further
\* update() calls, the position it rested at, zero velocity and grounded
\* true, also when the cached normal was stored from another position of
\* the same rounding cell.
C26_RestIsFixedPoint ==
  lastOp = "update" =>
    /\ grounded
    /\ velocity = Zero3
    /\ \E p \in RestPositions : VNear(position, p)

\* ------------------------------------------------- a jump and its landing
\* The frames after the jump: no key held, the mouse at rest, and the same
\* time.dt in every frame of a run.
LandInputs ==
  { In(<<1, 60>>, 0, 0, 0, 0, FALSE, <<0, 0>>, AxisZ),
    In(<<1, 10>>, 0, 0, 0, 0, FALSE, <<0, 0>>, AxisZ),
    In(<<1, 4>>,  0, 0, 0, 0, FALSE, <<0, 0>>, AxisZ) }

\* The avatar at rest on the surface: the four SphericalPlayer classes as
\* in InitRest, b33134k as constructed (grounded at distance SURFACE_R).
InitLand == InitRest \/ (Init /\ variant = "b33134k")

\* jump() on the avatar at rest.
LandJump == lastOp = "init" /\ Jump

\* update() while the avatar is airborne after the jump; the engine calls
\* it every frame.  budget counts the frames.
Airborne == lastOp \in {"jump", "update"} /\ ~grounded /\ budget < FallFrames

AirFrame ==
  /\ Airborne
  /\ \E in \in LandInputs :
       /\ lastOp = "update" => in = aux.in
       /\ LET r == UpdateOf(variant, Self, in)
          IN  /\ Becomes(r)
              /\ aux' = r.aux
              /\ hist' = [hist EXCEPT !.landed = hist.landed \/ r.grounded]
  /\ budget' = budget + 1
  /\ lastOp' = "update"
  /\ pre' = Snapshot
  /\ UNCHANGED <<variant, planet_radius, player_height, held_space>>

NextLand == LandJump \/ AirFrame

\* The engine calls update() on every frame, so while the avatar is airborne
\* the next frame does come.  (AirFrame is the only action that advances
\* budget and it is enabled whenever Airborne holds, so this is weak
\* fairness of AirFrame.)
FrameComes == Airborne /\ budget' = budget + 1

SpecLand == InitLand /\ [][NextLand]_vars /\ WF_budget(FrameComes)

\* ----------------------------------------------------------------- C27
\* The avatar has landed: the last update() grounded it.
Landed == lastOp = "update" /\ grounded
\* The avatar is at distance radius + height/2 (the position is bound by a
\* quantifier so that TLC takes the formula as a state predicate).
AtStandOff == \E p \in {position} : Near(Length(p), StandOff)
AtTarget == Near(Length(position), TargetDistance(variant))

\* C27 (as claimed): an avatar that jumps from rest and then receives no
\* input is grounded again after finitely many update() calls with a fixed
\* dt, and at that frame it is at distance radius + height/2.
C27_LandsAtStandOff ==
  /\ (lastOp = "jump" /\ ~grounded) ~> (Landed /\ AtStandOff)
  /\ [](Landed => AtStandOff)

\* C27 (amended): an avatar that jumps from rest and then receives no input
\* is grounded again after finitely many update() calls with a fixed dt,
\* and at that frame it is at the variant's target distance (radius +
\* height/2; the radius alone in b33134k).
C27_LandsAtTarget ==
  /\ (lastOp = "jump" /\ ~grounded) ~> (Landed /\ AtTarget)
  /\ [](Landed => AtTarget)

\* The landing frame of a jump that was airborne for several frames.
C27_Witness ==
  /\ lastOp = "update" /\ grounded /\ ~pre.self.grounded
  /\ hist.jumps = 1
  /\ budget > 3
  /\ Length(aux.integrated) < TargetDistance(variant) - Tol
====
